---------------------------- MODULE Spec2Model ----------------------------
(***************************************************************************)
(* Streaming capture-and-segmentation pipeline of Bangg                    *)
(* (apps/web/src-tauri/src): the session commands, the worker and capture  *)
(* threads, the retention buffer with its consumed cursor, the silence     *)
(* gate and the fragment accumulator.                                      *)
(*                                                                         *)
(* Sample counts are in units of 48000 samples, so a device rate r (in     *)
(* units of 48000 Hz) produces r units per second.  Amplitudes are in      *)
(* thousandths.  Durations are in seconds.  Text is a sequence of          *)
(* one-character strings.                                                  *)
(***************************************************************************)
EXTENDS Integers, Sequences, FiniteSets, TLC

(***************************************************************************)
(* Program constants                                                       *)
(***************************************************************************)
ChunkDurationSecs == 3
KeepSecs == 10
CaptureCap == 30
SilenceThreshold == 10
SilenceDelay == 3
ProcessingInterval == 1
DupMinLen == 5
TextMinLen == 2
SegMinLen == 1
MicMinSecs == 2
MicChunkSecs == 5

(***************************************************************************)
(* Bounds of the model                                                     *)
(***************************************************************************)
MaxWorkers == 2
BufWorkers == 1
MaxBlock == 2
MaxSleep == 2
TextBudget == 9
MaxMicBuf == 12
MaxBatchBuf == 2
MaxMicEvents == 3

Max(a, b) == IF a >= b THEN a ELSE b
Min(a, b) == IF a <= b THEN a ELSE b

(***************************************************************************)
(* Text: str::trim, str::to_lowercase, split_whitespace, ends_with,        *)
(* contains                                                                *)
(***************************************************************************)
IsSpace(c) == c = " "

Lower(c) ==
  CASE c = "H" -> "h"
    [] c = "Y" -> "y"
    [] c = "O" -> "o"
    [] OTHER -> c

ToLowercase(s) == [i \in 1..Len(s) |-> Lower(s[i])]

RECURSIVE TrimStart(_)
TrimStart(s) ==
  IF s # <<>> /\ IsSpace(Head(s)) THEN TrimStart(Tail(s)) ELSE s

RECURSIVE TrimEnd(_)
TrimEnd(s) ==
  IF s # <<>> /\ IsSpace(s[Len(s)]) THEN TrimEnd(SubSeq(s, 1, Len(s) - 1)) ELSE s

Trim(s) == TrimEnd(TrimStart(s))

Normalized(s) == ToLowercase(Trim(s))

\* str::len: the length of the UTF-8 encoding, two bytes for the one
\* character of the texts here that is not ASCII ("e_acute" is U+00E9)
Utf8Len(c) == IF c = "e_acute" THEN 2 ELSE 1

RECURSIVE ByteLen(_)
ByteLen(s) == IF s = <<>> THEN 0 ELSE Utf8Len(Head(s)) + ByteLen(Tail(s))

StartsWith(s, p) == Len(p) <= Len(s) /\ SubSeq(s, 1, Len(p)) = p

EndsWith(s, p) == Len(p) <= Len(s) /\ SubSeq(s, Len(s) - Len(p) + 1, Len(s)) = p

Contains(s, p) ==
  \E i \in 0..(Len(s) - Len(p)) : SubSeq(s, i + 1, i + Len(p)) = p

\* split_whitespace: the maximal runs of non-whitespace characters, in order
RECURSIVE SplitFrom(_, _, _)
SplitFrom(s, cur, acc) ==
  IF s = <<>>
  THEN IF cur = <<>> THEN acc ELSE Append(acc, cur)
  ELSE IF IsSpace(Head(s))
       THEN SplitFrom(Tail(s), <<>>, IF cur = <<>> THEN acc ELSE Append(acc, cur))
       ELSE SplitFrom(Tail(s), Append(cur, Head(s)), acc)

SplitWhitespace(s) == SplitFrom(s, <<>>, <<>>)

\* the longest run of consecutive equal (case-insensitive) words ending at i
RECURSIVE RunEndingAt(_, _)
RunEndingAt(words, i) ==
  IF i <= 1 THEN i
  ELSE IF ToLowercase(words[i]) = ToLowercase(words[i - 1])
       THEN RunEndingAt(words, i - 1) + 1
       ELSE 1

MaxConsecutive(words) ==
  LET runs == {RunEndingAt(words, i) : i \in 1..Len(words)} \cup {1}
  IN  CHOOSE m \in runs : \A r \in runs : r <= m

\* is_repetitive without the test that all words are the same
IsRepetitiveRunsOnly(text) ==
  LET words == SplitWhitespace(text)
  IN  IF Len(words) < 3 THEN FALSE
      ELSE Len(words) >= 6 /\ MaxConsecutive(words) > 3

is_repetitive(text) ==
  LET words == SplitWhitespace(text)
  IN  IF Len(words) < 3 THEN FALSE
      ELSE IF \A i \in 2..Len(words) : ToLowercase(words[i]) = ToLowercase(words[1])
           THEN TRUE
           ELSE Len(words) >= 6 /\ MaxConsecutive(words) > 3


(***************************************************************************)
(* transcribe_chunk_silent: the engine's segments joined and filtered      *)
(***************************************************************************)
NoText == <<>>

SegmentKept(t) ==
  /\ t # <<>>
  /\ ByteLen(t) > SegMinLen
  /\ ~StartsWith(t, <<"[", "_", "T", "T", "_">>)
  /\ ~StartsWith(t, <<"[", "_">>)

RECURSIVE JoinSegments(_)
JoinSegments(segs) ==
  IF segs = <<>> THEN <<>>
  ELSE LET t == Trim(Head(segs))
       IN  (IF SegmentKept(t) THEN t \o <<" ">> ELSE <<>>) \o JoinSegments(Tail(segs))

\* the text returned for an engine outcome r = [ok, segs]; an Err result
\* (create_state failed) and a failed inference both leave the caller with
\* nothing to append
transcribe_chunk_silent(r) ==
  IF r.ok # "ok" THEN NoText
  ELSE LET all_text == Trim(JoinSegments(r.segs))
       IN  IF all_text # <<>> /\ ~is_repetitive(all_text) /\ ByteLen(all_text) > TextMinLen
           THEN all_text
           ELSE NoText

(***************************************************************************)
(* The accumulator: lines 466-491 of capture_and_transcribe_system_audio   *)
(***************************************************************************)
IsDuplicate(accumulated_chunk, text_trimmed) ==
  LET accumulated_lower == ToLowercase(accumulated_chunk)
      text_lower == ToLowercase(text_trimmed)
  IN  IF accumulated_chunk = <<>> THEN FALSE
      ELSE \/ EndsWith(accumulated_lower, text_lower)
           \/ (Contains(accumulated_lower, text_lower) /\ ByteLen(text_lower) > DupMinLen)

Accumulate(accumulated_chunk, text) ==
  IF text # <<>> /\ ~is_repetitive(text)
  THEN LET text_trimmed == Trim(text)
       IN  IF IsDuplicate(accumulated_chunk, text_trimmed)
           THEN accumulated_chunk
           ELSE (IF accumulated_chunk # <<>> THEN accumulated_chunk \o <<" ">> ELSE <<>>)
                  \o text_trimmed
  ELSE accumulated_chunk

(***************************************************************************)
(* check_and_display_chunk (lines 339-373) on the worker's utterance state *)
(* u = [acc, silence, displayed, last]; silence is -1 for None, otherwise  *)
(* the seconds elapsed since the timer was started (kept up to             *)
(* SilenceDelay).  The result carries the text to emit, or NoText.         *)
(***************************************************************************)
NoTimer == -1

\* check_and_display_chunk without the mark that the utterance was displayed
CheckAndDisplayUnmarked(u) ==
  IF u.silence # NoTimer
  THEN IF u.silence >= SilenceDelay /\ u.acc # <<>> /\ ~u.displayed
       THEN IF Normalized(u.acc) # Normalized(u.last)
            THEN [u |-> [acc |-> <<>>, silence |-> NoTimer, displayed |-> FALSE,
                         last |-> Trim(u.acc)],
                  some |-> TRUE, text |-> Trim(u.acc)]
            ELSE [u |-> [acc |-> <<>>, silence |-> NoTimer, displayed |-> FALSE,
                         last |-> u.last],
                  some |-> FALSE, text |-> <<>>]
       ELSE [u |-> u, some |-> FALSE, text |-> <<>>]
  ELSE IF u.acc # <<>> /\ ~u.displayed
       THEN [u |-> [u EXCEPT !.silence = 0], some |-> FALSE, text |-> <<>>]
       ELSE [u |-> u, some |-> FALSE, text |-> <<>>]

\* check_and_display_chunk without the displayed mark and without the
\* comparison against the last displayed text
CheckAndDisplayNoDedup(u) ==
  IF u.silence # NoTimer
  THEN IF u.silence >= SilenceDelay /\ u.acc # <<>>
       THEN [u |-> [acc |-> <<>>, silence |-> NoTimer, displayed |-> FALSE,
                    last |-> Trim(u.acc)],
             some |-> TRUE, text |-> Trim(u.acc)]
       ELSE [u |-> u, some |-> FALSE, text |-> <<>>]
  ELSE IF u.acc # <<>>
       THEN [u |-> [u EXCEPT !.silence = 0], some |-> FALSE, text |-> <<>>]
       ELSE [u |-> u, some |-> FALSE, text |-> <<>>]

\* check_and_display_chunk without the test of the elapsed silence
CheckAndDisplayNoHold(u) ==
  IF u.silence # NoTimer
  THEN IF u.acc # <<>> /\ ~u.displayed
       THEN IF Normalized(u.acc) # Normalized(u.last)
            THEN [u |-> [acc |-> <<>>, silence |-> NoTimer, displayed |-> TRUE,
                         last |-> Trim(u.acc)],
                  some |-> TRUE, text |-> Trim(u.acc)]
            ELSE [u |-> [acc |-> <<>>, silence |-> NoTimer, displayed |-> TRUE,
                         last |-> u.last],
                  some |-> FALSE, text |-> <<>>]
       ELSE [u |-> u, some |-> FALSE, text |-> <<>>]
  ELSE IF u.acc # <<>> /\ ~u.displayed
       THEN [u |-> [u EXCEPT !.silence = 0], some |-> FALSE, text |-> <<>>]
       ELSE [u |-> u, some |-> FALSE, text |-> <<>>]

\* check_and_display_chunk without the reset of the silence timer at a flush
CheckAndDisplayKeepsTimer(u) ==
  IF u.silence # NoTimer
  THEN IF u.silence >= SilenceDelay /\ u.acc # <<>> /\ ~u.displayed
       THEN IF Normalized(u.acc) # Normalized(u.last)
            THEN [u |-> [acc |-> <<>>, silence |-> u.silence, displayed |-> TRUE,
                         last |-> Trim(u.acc)],
                  some |-> TRUE, text |-> Trim(u.acc)]
            ELSE [u |-> [acc |-> <<>>, silence |-> u.silence, displayed |-> TRUE,
                         last |-> u.last],
                  some |-> FALSE, text |-> <<>>]
       ELSE [u |-> u, some |-> FALSE, text |-> <<>>]
  ELSE IF u.acc # <<>> /\ ~u.displayed
       THEN [u |-> [u EXCEPT !.silence = 0], some |-> FALSE, text |-> <<>>]
       ELSE [u |-> u, some |-> FALSE, text |-> <<>>]

check_and_display_chunk(u) ==
  IF u.silence # NoTimer
  THEN IF u.silence >= SilenceDelay /\ u.acc # <<>> /\ ~u.displayed
       THEN IF Normalized(u.acc) # Normalized(u.last)
            THEN [u |-> [acc |-> <<>>, silence |-> NoTimer, displayed |-> TRUE,
                         last |-> Trim(u.acc)],
                  some |-> TRUE, text |-> Trim(u.acc)]
            ELSE [u |-> [acc |-> <<>>, silence |-> NoTimer, displayed |-> TRUE,
                         last |-> u.last],
                  some |-> FALSE, text |-> <<>>]
       ELSE [u |-> u, some |-> FALSE, text |-> <<>>]
  ELSE IF u.acc # <<>> /\ ~u.displayed
       THEN [u |-> [u EXCEPT !.silence = 0], some |-> FALSE, text |-> <<>>]
       ELSE [u |-> u, some |-> FALSE, text |-> <<>>]

\* the flush after the loop (lines 496-506)
StopFlushEmits(u) ==
  u.acc # <<>> /\ ~u.displayed /\ Normalized(u.acc) # Normalized(u.last)

\* OnSpeech without the reset of the silence timer of an utterance that goes on
OnSpeechKeepsTimer(u) ==
  IF u.displayed
  THEN [acc |-> <<>>, silence |-> NoTimer, displayed |-> FALSE, last |-> <<>>]
  ELSE u

\* OnSpeech without the reset of the displayed mark
OnSpeechKeepsMark(u) ==
  IF u.displayed
  THEN [acc |-> <<>>, silence |-> NoTimer, displayed |-> TRUE, last |-> <<>>]
  ELSE [u EXCEPT !.silence = NoTimer]

\* every speech chunk starts a new utterance
OnSpeechAlwaysNew(u) ==
  [acc |-> <<>>, silence |-> NoTimer, displayed |-> FALSE, last |-> <<>>]

\* OnSpeech without the reset of the last displayed text
OnSpeechKeepsLast(u) ==
  IF u.displayed
  THEN [acc |-> <<>>, silence |-> NoTimer, displayed |-> FALSE, last |-> u.last]
  ELSE [u EXCEPT !.silence = NoTimer]

\* a speech chunk (lines 441-451): a displayed utterance starts a new turn
OnSpeech(u) ==
  IF u.displayed
  THEN [acc |-> <<>>, silence |-> NoTimer, displayed |-> FALSE, last |-> <<>>]
  ELSE [u EXCEPT !.silence = NoTimer]

(***************************************************************************)
(* State                                                                   *)
(***************************************************************************)
Kinds == {"mic", "sys", "batch"}
Realtime == {"mic", "sys"}
WorkerIds == Kinds \X (1..MaxWorkers)
Kind(w) == w[1]

VARIABLES
  env,       \* what the surroundings provide: platform, device, engine, commands
  running,   \* running[k]: RealtimeState.running, SystemAudioTranscriptionState.running,
             \* SystemAudioRecordingState.recording
  starting,  \* starting[k]: a start command holds the flag's lock, past its test-and-set
  stopping,  \* the batch stop command sleeps between clearing the flag and its snapshot
  lastCmd,   \* lastCmd[k]: the last command of kind k that returned, and its result
  nspawn,    \* nspawn[k]: threads spawned by start so far
  wk,        \* wk[w]: the worker thread w = <<kind, n>>, its locals and its capture thread
  batchBuf,  \* SystemAudioRecordingState.audio_buffer: the recorder that appended each unit
  call       \* one call of a function of the pipeline on its own: its argument and result

vars == <<call, env, running, starting, stopping, lastCmd, nspawn, wk, batchBuf>>

FreshUtterance == [acc |-> <<>>, silence |-> NoTimer, displayed |-> FALSE, last |-> <<>>]

\* chunk is the chunk of the present iteration of the system-audio worker:
\* the samples buffer[from..to], their peak amplitude, and the number of
\* times it was passed to the engine
NoChunk == [taken |-> FALSE, from |-> 0, to |-> 0, amp |-> 0, passed |-> 0]

\* a thread that start has not spawned yet
NoWorker ==
  [pc |-> "none", cpc |-> "none", initMsg |-> 0, rate |-> 0,
   len |-> 0, cursor |-> 0, budget |-> 0,
   u |-> FreshUtterance, turn |-> 0, events |-> <<>>,
   boundary |-> 0, lost |-> FALSE, overlap |-> FALSE, stopReq |-> FALSE,
   chunk |-> NoChunk]

NoCmd == [cmd |-> "none", res |-> "none", wasIdle |-> FALSE, transcribed |-> FALSE]

NoCall == [fn |-> "none"]

Alive(w) == wk[w].pc \notin {"none", "done", "failed"}
CaptureAlive(w) == wk[w].cpc \notin {"none", "done"}
AliveOf(k) == {w \in WorkerIds : Kind(w) = k /\ Alive(w)}

\* a session is Idle when its flag is clear and no thread of it is left
Idle(k) == ~running[k] /\ ~starting[k] /\ AliveOf(k) = {}

Ev(type, text, turn) == [type |-> type, text |-> text, turn |-> turn]
Emit(rec, type, text) == [rec EXCEPT !.events = Append(@, Ev(type, text, rec.turn))]

InitThreads ==
  /\ running = [k \in Kinds |-> FALSE]
  /\ starting = [k \in Kinds |-> FALSE]
  /\ stopping = [on |-> FALSE, wasIdle |-> FALSE]
  /\ lastCmd = [k \in Kinds |-> NoCmd]
  /\ nspawn = [k \in Kinds |-> 0]
  /\ wk = [w \in WorkerIds |-> NoWorker]
  /\ batchBuf = <<>>

InitState == InitThreads /\ call = NoCall

(***************************************************************************)
(* Commands of the realtime kinds: start_transcription / stop_transcription *)
(* (realtime_transcription.rs) and start_system_audio_transcription /       *)
(* stop_system_audio_transcription (system_audio_transcription.rs)          *)
(***************************************************************************)
ResolveOutcomes == {"ok", "not_found", "invalid_path"}

\* a start that tests the flag and does not set it
StartBeginTestOnly(k) ==
  /\ k \in Realtime \cap env.kinds
  /\ ~starting[k]
  /\ IF running[k]
     THEN /\ lastCmd' = [lastCmd EXCEPT ![k] = [cmd |-> "start", res |-> "already",
                                                wasIdle |-> FALSE, transcribed |-> FALSE]]
          /\ UNCHANGED starting
     ELSE /\ nspawn[k] < env.workers
          /\ starting' = [starting EXCEPT ![k] = TRUE]
          /\ UNCHANGED lastCmd
  /\ UNCHANGED <<call, env, running, stopping, nspawn, wk, batchBuf>>

\* lock the flag, test it and set it (lines 114-118 / 103-107); the guard of
\* the lock lives until the command returns
StartBegin(k) ==
  /\ k \in Realtime \cap env.kinds
  /\ ~starting[k]
  /\ IF running[k]
     THEN /\ lastCmd' = [lastCmd EXCEPT ![k] = [cmd |-> "start", res |-> "already",
                                                wasIdle |-> FALSE, transcribed |-> FALSE]]
          /\ UNCHANGED <<running, starting>>
     ELSE /\ nspawn[k] < env.workers
          /\ running' = [running EXCEPT ![k] = TRUE]
          /\ starting' = [starting EXCEPT ![k] = TRUE]
          /\ UNCHANGED lastCmd
  /\ UNCHANGED <<call, env, stopping, nspawn, wk, batchBuf>>

\* resolve_model_path, to_str, thread::spawn and return (lines 120-145 / 109-126)
StartFinish(k) ==
  /\ k \in Realtime
  /\ starting[k]
  /\ \E o \in ResolveOutcomes :
       /\ lastCmd' = [lastCmd EXCEPT ![k] =
                        [cmd |-> "start", res |-> o, wasIdle |-> FALSE, transcribed |-> FALSE]]
       /\ IF o = "ok"
          THEN /\ nspawn' = [nspawn EXCEPT ![k] = @ + 1]
               /\ wk' = [wk EXCEPT ![<<k, nspawn[k] + 1>>] =
                           [NoWorker EXCEPT !.pc = "load", !.budget = env.budget]]
          ELSE UNCHANGED <<nspawn, wk>>
  /\ starting' = [starting EXCEPT ![k] = FALSE]
  /\ UNCHANGED <<call, env, running, stopping, batchBuf>>

\* a stop that clears one flag shared by all kinds
StopSharedFlag(k) ==
  /\ k \in Realtime \cap env.kinds
  /\ ~starting[k]
  /\ running' = [j \in Kinds |-> FALSE]
  /\ lastCmd' = [lastCmd EXCEPT ![k] =
                   [cmd |-> "stop", res |-> "ok", wasIdle |-> Idle(k), transcribed |-> FALSE]]
  /\ wk' = [w \in WorkerIds |->
              IF Kind(w) = k /\ Alive(w) /\ running[k]
              THEN [wk[w] EXCEPT !.stopReq = TRUE] ELSE wk[w]]
  /\ UNCHANGED <<call, env, starting, stopping, nspawn, batchBuf>>

\* lock the flag and clear it (lines 153-155 / 131-133)
Stop(k) ==
  /\ k \in Realtime \cap env.kinds
  /\ ~starting[k]
  /\ running' = [running EXCEPT ![k] = FALSE]
  /\ lastCmd' = [lastCmd EXCEPT ![k] =
                   [cmd |-> "stop", res |-> "ok", wasIdle |-> Idle(k), transcribed |-> FALSE]]
  /\ wk' = [w \in WorkerIds |->
              IF Kind(w) = k /\ Alive(w) /\ running[k]
              THEN [wk[w] EXCEPT !.stopReq = TRUE] ELSE wk[w]]
  /\ UNCHANGED <<call, env, starting, stopping, nspawn, batchBuf>>

(***************************************************************************)
(* The system-audio realtime worker: capture_and_transcribe_system_audio   *)
(***************************************************************************)
Step(w, rec) ==
  /\ wk' = [wk EXCEPT ![w] = rec]
  /\ UNCHANGED <<call, env, running, starting, stopping, lastCmd, nspawn, batchBuf>>

\* WhisperContext::new_with_params (lines 165-167), the platform test (169-170)
\* and the spawn of the capture thread (182); an Err return makes the closure
\* of start emit transcription_error (lines 140-141)
SysLoadModel(w) ==
  /\ Kind(w) = "sys"
  /\ wk[w].pc = "load"
  /\ \E ok \in env.load :
       IF ok /\ env.windows
       THEN Step(w, [wk[w] EXCEPT !.pc = "recv", !.cpc = "init"])
       ELSE Step(w, Emit([wk[w] EXCEPT !.pc = "failed"], "error", <<>>))

\* the capture thread opens the loopback device (lines 183-237, 294-296) and
\* sends the rate, or the error, to the worker
CaptureInit(w) ==
  /\ Kind(w) = "sys"
  /\ wk[w].cpc = "init"
  /\ \/ \E r \in env.rates : Step(w, [wk[w] EXCEPT !.cpc = "check", !.initMsg = r])
     \/ /\ env.deviceFails
        /\ Step(w, [wk[w] EXCEPT !.cpc = "done", !.initMsg = -1])

\* init_rx.recv_timeout (lines 302-310)
RecvInit(w) ==
  /\ Kind(w) = "sys"
  /\ wk[w].pc = "recv"
  /\ IF wk[w].initMsg > 0
     THEN Step(w, [wk[w] EXCEPT !.pc = "loop", !.rate = wk[w].initMsg])
     ELSE /\ wk[w].initMsg = -1 \/ env.deviceFails
          /\ Step(w, Emit([wk[w] EXCEPT !.pc = "failed"], "error", <<>>))

\* while *running.lock().unwrap() (line 326)
SysLoopCheck(w) ==
  /\ Kind(w) = "sys"
  /\ wk[w].pc = "loop"
  /\ ~starting["sys"]
  /\ Step(w, [wk[w] EXCEPT !.pc = IF running["sys"] THEN "sleep" ELSE "flush",
                            !.chunk = NoChunk])

Age(silence, d) == IF silence = NoTimer THEN NoTimer ELSE Min(silence + d, SilenceDelay)

\* thread::sleep of the processing interval, which lasts d seconds, and the
\* second test of the flag (lines 328-333)
SysWake(w) ==
  /\ Kind(w) = "sys"
  /\ wk[w].pc = "sleep"
  /\ ~starting["sys"]
  /\ \E d \in ProcessingInterval..MaxSleep :
       Step(w, [wk[w] EXCEPT !.pc = IF running["sys"] THEN "poll" ELSE "flush",
                             !.u.silence = Age(@, d)])

min_samples(rec) == rec.rate * ChunkDurationSecs
keep_samples(rec) == rec.rate * KeepSecs

EnoughNew(rec) ==
  /\ rec.len >= min_samples(rec)
  /\ rec.len - rec.cursor >= min_samples(rec)

\* the utterance after check_and_display_chunk, with the event it emits
Display(rec) ==
  LET r == check_and_display_chunk(rec.u)
      rec1 == [rec EXCEPT !.u = r.u]
  IN  IF r.some THEN Emit(rec1, "text", r.text) ELSE rec1

\* not enough audio, or not enough new audio (lines 375-405)
SysPollSkip(w) ==
  /\ Kind(w) = "sys"
  /\ wk[w].pc = "poll"
  /\ ~EnoughNew(wk[w])
  /\ Step(w, [Display(wk[w]) EXCEPT !.pc = "loop"])

\* TakeChunk with a chunk that starts at the head of the buffer
TakeChunkFromStart(rec) ==
  LET current_samples == rec.len
      taken == [rec EXCEPT !.chunk = [NoChunk EXCEPT !.taken = TRUE,
                                                      !.from = 0,
                                                      !.to = current_samples],
                           !.cursor = current_samples,
                           !.boundary = current_samples,
                           !.overlap = @ \/ 0 < rec.boundary]
  IN  IF current_samples > keep_samples(rec)
      THEN [taken EXCEPT !.len = keep_samples(rec),
                         !.cursor = keep_samples(rec),
                         !.boundary = keep_samples(rec)]
      ELSE taken

\* TakeChunk without the reset of last_processed_samples after the drain
TakeChunkStaleCursor(rec) ==
  LET current_samples == rec.len
      taken == [rec EXCEPT !.chunk = [NoChunk EXCEPT !.taken = TRUE,
                                                      !.from = rec.cursor,
                                                      !.to = current_samples],
                           !.cursor = current_samples,
                           !.boundary = current_samples,
                           !.lost = @ \/ rec.cursor > rec.boundary,
                           !.overlap = @ \/ rec.cursor < rec.boundary]
  IN  IF current_samples > keep_samples(rec)
      THEN [taken EXCEPT !.len = keep_samples(rec),
                         !.boundary = keep_samples(rec)]
      ELSE taken

\* the chunk buffer[last_processed_samples..current_samples] is taken and the
\* buffer cut to its last keep_samples (lines 407-421).  boundary follows the
\* first sample that was in no chunk, lost and overlap record a chunk that
\* starts after or before it.
TakeChunk(rec) ==
  LET current_samples == rec.len
      taken == [rec EXCEPT !.chunk = [NoChunk EXCEPT !.taken = TRUE,
                                                      !.from = rec.cursor,
                                                      !.to = current_samples],
                           !.cursor = current_samples,
                           !.boundary = current_samples,
                           !.lost = @ \/ rec.cursor > rec.boundary,
                           !.overlap = @ \/ rec.cursor < rec.boundary]
  IN  IF current_samples > keep_samples(rec)
      THEN [taken EXCEPT !.len = keep_samples(rec),
                         !.cursor = keep_samples(rec),
                         !.boundary = keep_samples(rec)]
      ELSE taken

\* a chunk below the silence threshold goes to the engine like a speech chunk
SysPollUngated(w) ==
  /\ Kind(w) = "sys"
  /\ wk[w].pc = "poll"
  /\ EnoughNew(wk[w])
  /\ \E amp \in env.amps :
       /\ amp < SilenceThreshold
       /\ Step(w, [TakeChunk(wk[w]) EXCEPT !.pc = "engine", !.chunk.amp = amp])

\* a chunk below the silence threshold (lines 426-439)
SysPollSilence(w) ==
  /\ Kind(w) = "sys"
  /\ wk[w].pc = "poll"
  /\ EnoughNew(wk[w])
  /\ \E amp \in env.amps :
       /\ amp < SilenceThreshold
       /\ Step(w, [Display(TakeChunk(wk[w])) EXCEPT !.pc = "loop", !.chunk.amp = amp])

\* a speech chunk (lines 441-461): the worker goes on to the engine
SysPollSpeech(w) ==
  /\ Kind(w) = "sys"
  /\ wk[w].pc = "poll"
  /\ EnoughNew(wk[w])
  /\ \E amp \in env.amps :
       /\ ~(amp < SilenceThreshold)
       /\ Step(w, [TakeChunk(wk[w]) EXCEPT !.pc = "engine",
                                           !.chunk.amp = amp,
                                           !.u = OnSpeech(@),
                                           !.turn = IF wk[w].u.displayed THEN @ + 1 ELSE @])

\* transcribe_chunk_silent returns and its text is accumulated (lines 465-492)
SysEngineReturn(w) ==
  /\ Kind(w) = "sys"
  /\ wk[w].pc = "engine"
  /\ \E r \in env.engine :
       Step(w, [wk[w] EXCEPT !.pc = "loop",
                             !.chunk.passed = @ + 1,
                             !.u.acc = Accumulate(@, transcribe_chunk_silent(r))])

\* the flush after the loop (lines 496-506)
SysStopFlush(w) ==
  /\ Kind(w) = "sys"
  /\ wk[w].pc = "flush"
  /\ Step(w, [(IF StopFlushEmits(wk[w].u)
               THEN Emit(wk[w], "text", Trim(wk[w].u.acc))
               ELSE wk[w]) EXCEPT !.pc = "join"])

\* the worker goes on without waiting for the capture thread
SysJoinDetached(w) ==
  /\ Kind(w) = "sys"
  /\ wk[w].pc = "join"
  /\ Step(w, [wk[w] EXCEPT !.pc = "notify"])

\* capture_thread.join() returns once the capture thread has ended (line 509)
SysJoin(w) ==
  /\ Kind(w) = "sys"
  /\ wk[w].pc = "join"
  /\ wk[w].cpc = "done"
  /\ Step(w, [wk[w] EXCEPT !.pc = "notify"])

\* the stopped event and the return of the worker (lines 511-514)
SysNotifyStopped(w) ==
  /\ Kind(w) = "sys"
  /\ wk[w].pc = "notify"
  /\ Step(w, Emit([wk[w] EXCEPT !.pc = "done"], "stopped", <<>>))

(***************************************************************************)
(* The capture thread of the system-audio worker (lines 239-292)           *)
(***************************************************************************)
\* if !*running_clone.lock().unwrap() { break } (lines 241-243, 248-250)
CaptureCheck(w) ==
  /\ Kind(w) = "sys"
  /\ wk[w].cpc = "check"
  /\ ~starting["sys"]
  /\ Step(w, [wk[w] EXCEPT !.cpc = IF running["sys"] THEN "wait" ELSE "done"])

\* the wait timed out, the read failed or it returned nothing (lines 246-265)
CaptureIdle(w) ==
  /\ Kind(w) = "sys"
  /\ wk[w].cpc = "wait"
  /\ Step(w, [wk[w] EXCEPT !.cpc = "check"])

\* the buffer is cut to the cap before the block is appended
CaptureExtendLateCut(rec, n) ==
  LET to_remove == rec.len - CaptureCap
  IN  IF rec.len > CaptureCap
      THEN [rec EXCEPT !.len = CaptureCap + n,
                       !.boundary = Max(@ - to_remove, 0),
                       !.lost = @ \/ to_remove > rec.boundary]
      ELSE [rec EXCEPT !.len = rec.len + n]

\* buf.extend(samples) and the cap of 30 * 48000 samples (lines 280-291)
CaptureExtend(rec, n) ==
  LET len1 == rec.len + n
      to_remove == len1 - CaptureCap
  IN  IF len1 > CaptureCap
      THEN [rec EXCEPT !.len = CaptureCap,
                       !.boundary = Max(@ - to_remove, 0),
                       !.lost = @ \/ to_remove > rec.boundary]
      ELSE [rec EXCEPT !.len = len1]

\* budget: the units the device still delivers to this worker, -1 for no limit
Spend(budget, n) == IF budget < 0 THEN budget ELSE budget - n

CaptureAppend(w) ==
  /\ Kind(w) = "sys"
  /\ wk[w].cpc = "wait"
  /\ \E n \in 1..MaxBlock :
       /\ wk[w].budget < 0 \/ n <= wk[w].budget
       /\ Step(w, [CaptureExtend(wk[w], n) EXCEPT !.cpc = "check",
                                                  !.budget = Spend(@, n)])

SysWorker(w) ==
  \/ SysLoadModel(w) \/ RecvInit(w) \/ SysLoopCheck(w) \/ SysWake(w)
  \/ SysPollSkip(w) \/ SysPollSilence(w) \/ SysPollSpeech(w) \/ SysEngineReturn(w)
  \/ SysStopFlush(w) \/ SysJoin(w) \/ SysNotifyStopped(w)

SysCapture(w) ==
  \/ CaptureInit(w) \/ CaptureCheck(w) \/ CaptureIdle(w) \/ CaptureAppend(w)

(***************************************************************************)
(* The microphone worker: capture_and_transcribe (realtime_transcription.rs) *)
(* Its buffer is counted in seconds of audio (sample_rate * channels).      *)
(***************************************************************************)
\* WhisperContext::new_with_params (lines 143-145); start only logs an Err
MicLoadModel(w) ==
  /\ Kind(w) = "mic"
  /\ wk[w].pc = "load"
  /\ \E ok \in env.load :
       Step(w, [wk[w] EXCEPT !.pc = IF ok THEN "open" ELSE "failed"])

\* default_input_device, default_input_config, build_input_stream, play
\* (lines 147-188)
MicOpen(w) ==
  /\ Kind(w) = "mic"
  /\ wk[w].pc = "open"
  /\ \/ Step(w, [wk[w] EXCEPT !.pc = "loop", !.cpc = "run"])
     \/ /\ env.deviceFails
        /\ Step(w, [wk[w] EXCEPT !.pc = "failed"])

\* while *running_clone.lock().unwrap() (line 191); drop(stream) (line 276)
MicLoopCheck(w) ==
  /\ Kind(w) = "mic"
  /\ wk[w].pc = "loop"
  /\ ~starting["mic"]
  /\ IF running["mic"]
     THEN Step(w, [wk[w] EXCEPT !.pc = "sleep"])
     ELSE Step(w, [wk[w] EXCEPT !.pc = "done", !.cpc = "done"])

\* not enough audio yet (lines 194-201)
MicPollSkip(w) ==
  /\ Kind(w) = "mic"
  /\ wk[w].pc = "sleep"
  /\ wk[w].len < MicMinSecs
  /\ Step(w, [wk[w] EXCEPT !.pc = "loop"])

\* the last 5 seconds are copied and the buffer is cut to them once it holds
\* more than 10 (lines 203-213)
MicTakeChunk(rec) ==
  LET chunk_samples == MicChunkSecs
      buffer_len == rec.len
      start == Max(buffer_len - chunk_samples, 0)
      taken == [rec EXCEPT !.boundary = buffer_len,
                           !.lost = @ \/ start > rec.boundary,
                           !.overlap = @ \/ start < rec.boundary]
  IN  IF buffer_len > chunk_samples * 2
      THEN [taken EXCEPT !.len = chunk_samples, !.boundary = chunk_samples]
      ELSE taken

MicPollTake(w) ==
  /\ Kind(w) = "mic"
  /\ wk[w].pc = "sleep"
  /\ wk[w].len >= MicMinSecs
  /\ Step(w, [MicTakeChunk(wk[w]) EXCEPT !.pc = "engine"])

\* every kept segment is emitted as transcription_update (lines 257-273)
RECURSIVE EmitSegments(_, _)
EmitSegments(rec, segs) ==
  IF segs = <<>> THEN rec
  ELSE LET text == Trim(Head(segs))
       IN  EmitSegments(IF SegmentKept(text) THEN Emit(rec, "text", text) ELSE rec,
                        Tail(segs))

\* create_state (lines 240-241) returns the worker with an Err; otherwise the
\* chunk is transcribed (lines 257-273)
MicEngineReturn(w) ==
  /\ Kind(w) = "mic"
  /\ wk[w].pc = "engine"
  /\ \E r \in env.engine :
       /\ Len(wk[w].events) + Len(r.segs) <= MaxMicEvents
       /\ IF r.ok = "state_err"
          THEN Step(w, [wk[w] EXCEPT !.pc = "failed", !.cpc = "done"])
          ELSE Step(w, [EmitSegments(wk[w], IF r.ok = "ok" THEN r.segs ELSE <<>>)
                          EXCEPT !.pc = "loop"])

\* the input stream's data callback (lines 178-181)
MicCallback(w) ==
  /\ Kind(w) = "mic"
  /\ wk[w].cpc = "run"
  /\ \E n \in 1..MaxBlock :
       /\ wk[w].budget < 0 \/ n <= wk[w].budget
       /\ wk[w].len + n <= MaxMicBuf
       /\ Step(w, [wk[w] EXCEPT !.len = @ + n, !.budget = Spend(@, n)])

MicWorker(w) ==
  \/ MicLoadModel(w) \/ MicOpen(w) \/ MicLoopCheck(w) \/ MicPollSkip(w)
  \/ MicPollTake(w) \/ MicEngineReturn(w)

(***************************************************************************)
(* Batch mode: start_system_audio_recording, record_system_audio and       *)
(* stop_system_audio_recording_and_transcribe                              *)
(***************************************************************************)
\* lines 674-700; the buffer is cleared before the platform test
BatchStart ==
  /\ "batch" \in env.kinds
  /\ IF running["batch"]
     THEN /\ lastCmd' = [lastCmd EXCEPT !["batch"] =
                           [cmd |-> "start", res |-> "already",
                            wasIdle |-> FALSE, transcribed |-> FALSE]]
          /\ UNCHANGED <<running, nspawn, wk, batchBuf>>
     ELSE /\ nspawn["batch"] < env.workers
          /\ running' = [running EXCEPT !["batch"] = TRUE]
          /\ batchBuf' = <<>>
          /\ IF env.windows
             THEN /\ nspawn' = [nspawn EXCEPT !["batch"] = @ + 1]
                  /\ wk' = [wk EXCEPT ![<<"batch", nspawn["batch"] + 1>>] =
                              [NoWorker EXCEPT !.pc = "init", !.budget = env.budget]]
                  /\ lastCmd' = [lastCmd EXCEPT !["batch"] =
                                   [cmd |-> "start", res |-> "ok",
                                    wasIdle |-> FALSE, transcribed |-> FALSE]]
             ELSE /\ lastCmd' = [lastCmd EXCEPT !["batch"] =
                                   [cmd |-> "start", res |-> "unsupported",
                                    wasIdle |-> FALSE, transcribed |-> FALSE]]
                  /\ UNCHANGED <<nspawn, wk>>
  /\ UNCHANGED <<call, env, starting, stopping>>

\* the flag is cleared and the command sleeps 500 ms (lines 710-715)
BatchStopBegin ==
  /\ "batch" \in env.kinds
  /\ ~stopping.on
  /\ running' = [running EXCEPT !["batch"] = FALSE]
  /\ stopping' = [on |-> TRUE, wasIdle |-> Idle("batch")]
  /\ wk' = [w \in WorkerIds |->
              IF Kind(w) = "batch" /\ Alive(w) /\ running["batch"]
              THEN [wk[w] EXCEPT !.stopReq = TRUE] ELSE wk[w]]
  /\ UNCHANGED <<call, env, starting, lastCmd, nspawn, batchBuf>>

\* the snapshot of the buffer, the model and the transcription (lines 717-741)
BatchStopFinish ==
  /\ stopping.on
  /\ stopping' = [on |-> FALSE, wasIdle |-> FALSE]
  /\ \E o \in ResolveOutcomes, ok \in env.load :
       LET audio_samples == batchBuf
           res == IF audio_samples = <<>> THEN "no_audio"
                  ELSE IF o # "ok" THEN o
                  ELSE IF ~ok THEN "transcription_failed"
                  ELSE "ok"
       IN  lastCmd' = [lastCmd EXCEPT !["batch"] =
                         [cmd |-> "stop", res |-> res, wasIdle |-> stopping.wasIdle,
                          transcribed |-> (res = "ok")]]
  /\ UNCHANGED <<call, env, running, starting, nspawn, wk, batchBuf>>

\* the recorder opens the loopback device (lines 751-808, 856-858)
RecInit(w) ==
  /\ Kind(w) = "batch"
  /\ wk[w].pc = "init"
  /\ \/ \E r \in env.rates : Step(w, [wk[w] EXCEPT !.pc = "check", !.rate = r])
     \/ /\ env.deviceFails
        /\ Step(w, [wk[w] EXCEPT !.pc = "failed"])

\* if !*recording.lock().unwrap() { break } (lines 811-813, 817-819)
RecCheck(w) ==
  /\ Kind(w) = "batch"
  /\ wk[w].pc = "check"
  /\ Step(w, [wk[w] EXCEPT !.pc = IF running["batch"] THEN "wait" ELSE "done"])

\* the wait timed out, the read failed or it returned nothing (lines 816-834)
RecIdle(w) ==
  /\ Kind(w) = "batch"
  /\ wk[w].pc = "wait"
  /\ Step(w, [wk[w] EXCEPT !.pc = "check"])

\* buf.extend(samples) (lines 850-853): one unit, marked with its recorder
RecAppend(w) ==
  /\ Kind(w) = "batch"
  /\ wk[w].pc = "wait"
  /\ wk[w].budget # 0
  /\ Len(batchBuf) < MaxBatchBuf
  /\ batchBuf' = Append(batchBuf, w[2])
  /\ wk' = [wk EXCEPT ![w] = [@ EXCEPT !.pc = "check", !.budget = Spend(@, 1)]]
  /\ UNCHANGED <<call, env, running, starting, stopping, lastCmd, nspawn>>

Recorder(w) == RecInit(w) \/ RecCheck(w) \/ RecIdle(w) \/ RecAppend(w)

(***************************************************************************)
(* Surroundings                                                            *)
(***************************************************************************)
Rates == {1, 2, 4}
Quiet == {0, 9}
Loud == {10, 500}

Seg(text) == [ok |-> "ok", segs |-> <<text>>]
Hey == <<"h", "e", "y">>
HeyUpper == <<"H", "e", "y">>
YouYouYou == <<"y", "o", "u", " ", "y", "o", "u", " ", "Y", "o", "u">>
Nothing == [ok |-> "ok", segs |-> <<>>]
Failures == {[ok |-> "state_err", segs |-> <<>>], [ok |-> "full_err", segs |-> <<>>]}
You == <<"y", "o", "u">>
Engine == {Seg(Hey), Seg(HeyUpper), Seg(You), Seg(YouYouYou), Nothing} \cup Failures

Commands ==
  \/ \E k \in Realtime : StartBegin(k) \/ StartFinish(k) \/ Stop(k)
  \/ BatchStart \/ BatchStopBegin \/ BatchStopFinish

\* the steps a thread takes whether or not the device delivers audio
WorkerLife(w) ==
  \/ SysLoadModel(w) \/ RecvInit(w) \/ SysLoopCheck(w) \/ SysWake(w) \/ SysPollSkip(w)
  \/ SysStopFlush(w) \/ SysJoin(w) \/ SysNotifyStopped(w)
  \/ MicLoadModel(w) \/ MicOpen(w) \/ MicLoopCheck(w) \/ MicPollSkip(w)

CaptureLife(w) == CaptureInit(w) \/ CaptureCheck(w) \/ CaptureIdle(w)

RecorderLife(w) == RecInit(w) \/ RecCheck(w) \/ RecIdle(w)

Lifecycle(w) == WorkerLife(w) \/ CaptureLife(w) \/ RecorderLife(w)

Thread(w) == SysWorker(w) \/ SysCapture(w) \/ MicWorker(w) \/ MicCallback(w) \/ Recorder(w)

Env(kinds, workers, platforms, rates, amps, engine, budget) ==
  [kinds : kinds, workers : {workers}, windows : platforms, load : {BOOLEAN},
   deviceFails : {TRUE}, rates : {rates}, amps : {amps}, engine : {engine},
   budget : {budget}]

(***************************************************************************)
(* Sessions: the commands of one kind in any order, with up to MaxWorkers  *)
(* threads, on either platform, while the device delivers no audio         *)
(***************************************************************************)
InitSession ==
  /\ InitState
  /\ env \in Env({{k} : k \in Kinds}, MaxWorkers, BOOLEAN, {1}, {}, {}, 0)

NextSession == Commands \/ (\E w \in WorkerIds : Lifecycle(w))

SpecSession == InitSession /\ [][NextSession]_vars

\* every spawned thread keeps being scheduled, and a command that holds a lock
\* or sleeps runs on to its return; commands are issued at will
FairSession ==
  /\ SpecSession
  /\ \A w \in WorkerIds :
       WF_vars(WorkerLife(w)) /\ WF_vars(CaptureLife(w)) /\ WF_vars(RecorderLife(w))
  /\ \A k \in Realtime : WF_vars(StartFinish(k))
  /\ WF_vars(BatchStopFinish)

(***************************************************************************)
(* Buffers: one session of a kind, on a device of any rate that delivers   *)
(* audio without end, quiet or loud, in which the engine finds no text     *)
(***************************************************************************)
InitBuffer ==
  /\ InitState
  /\ env \in Env({{k} : k \in Kinds}, BufWorkers, {TRUE}, Rates, Quiet \cup Loud,
                 {Nothing} \cup Failures, -1)

Next == Commands \/ (\E w \in WorkerIds : Thread(w))

Spec == InitBuffer /\ [][Next]_vars

(***************************************************************************)
(* Utterances: one system-audio session whose device delivers TextBudget   *)
(* units of audio, in which the engine finds text                          *)
(***************************************************************************)
InitText ==
  /\ InitState
  /\ env \in Env({{"sys"}}, BufWorkers, {TRUE}, {1}, Quiet \cup Loud, Engine, TextBudget)

NextText ==
  \/ \E k \in Realtime : StartBegin(k) \/ StartFinish(k) \/ Stop(k)
  \/ \E w \in WorkerIds : SysWorker(w) \/ SysCapture(w)

SpecText == InitText /\ [][NextText]_vars


(***************************************************************************)
(* Events: one realtime session of either kind whose device delivers       *)
(* TextBudget units of audio, in which the engine finds text; the          *)
(* microphone session is followed up to MaxMicEvents events                *)
(***************************************************************************)
InitEvents ==
  /\ InitState
  /\ env \in Env({{k} : k \in Realtime}, BufWorkers, {TRUE}, {1}, Quiet \cup Loud,
                 Engine, TextBudget)

NextEvents ==
  \/ \E k \in Realtime : StartBegin(k) \/ StartFinish(k) \/ Stop(k)
  \/ \E w \in WorkerIds : SysWorker(w) \/ SysCapture(w) \/ MicWorker(w) \/ MicCallback(w)

SpecEvents == InitEvents /\ [][NextEvents]_vars

(***************************************************************************)
(* Recordings: the batch commands in any order with up to MaxWorkers       *)
(* recorder threads, on either platform, on a device that delivers audio   *)
(***************************************************************************)
InitBatch ==
  /\ InitState
  /\ env \in Env({{"batch"}}, MaxWorkers, BOOLEAN, Rates, {}, {}, -1)

NextBatch ==
  \/ BatchStart \/ BatchStopBegin \/ BatchStopFinish
  \/ \E w \in WorkerIds : Recorder(w)

SpecBatch == InitBatch /\ [][NextBatch]_vars

(***************************************************************************)
(* Kinds together: the commands of all three kinds in any order, one       *)
(* thread per kind, while the device delivers no audio                    *)
(***************************************************************************)
InitKinds ==
  /\ InitState
  /\ env \in Env({Kinds}, BufWorkers, {TRUE}, {1}, {}, {}, 0)

SpecKinds == InitKinds /\ [][NextSession]_vars

(***************************************************************************)
(* Chunks: one system-audio session on a device of any rate that delivers  *)
(* audio without end, in which every thread keeps being scheduled and the  *)
(* engine finds no text                                                    *)
(***************************************************************************)
InitChunks ==
  /\ InitState
  /\ env \in Env({{"sys"}}, BufWorkers, {TRUE}, Rates, {0, SilenceThreshold},
                 {Nothing}, -1)

NextChunks ==
  \/ StartBegin("sys") \/ StartFinish("sys") \/ Stop("sys")
  \/ \E w \in WorkerIds : SysWorker(w) \/ SysCapture(w)

SpecChunks == InitChunks /\ [][NextChunks]_vars

\* the worker and the capture thread keep being scheduled, and a start
\* command runs on to its return
FairChunks ==
  /\ SpecChunks
  /\ \A w \in WorkerIds : WF_vars(SysWorker(w)) /\ WF_vars(SysCapture(w))
  /\ WF_vars(StartFinish("sys"))

(***************************************************************************)
(* Starts: start commands of one kind, or of all kinds, issued at will     *)
(* from Idle and never followed by a stop, with up to MaxWorkers threads,  *)
(* on either platform                                                      *)
(***************************************************************************)
InitStarts ==
  /\ InitState
  /\ env \in Env({{k} : k \in Kinds} \cup {Kinds}, MaxWorkers, BOOLEAN, {1}, {}, {}, 0)

NextStarts ==
  \/ \E k \in Realtime : StartBegin(k) \/ StartFinish(k)
  \/ BatchStart
  \/ \E w \in WorkerIds :
       \/ SysLoadModel(w) \/ RecvInit(w) \/ SysLoopCheck(w) \/ SysWake(w) \/ SysPollSkip(w)
       \/ CaptureInit(w) \/ CaptureCheck(w) \/ CaptureIdle(w)
       \/ MicLoadModel(w) \/ MicOpen(w) \/ MicLoopCheck(w) \/ MicPollSkip(w)
       \/ RecInit(w) \/ RecCheck(w) \/ RecIdle(w)

SpecStarts == InitStarts /\ [][NextStarts]_vars

(***************************************************************************)
(* Functions on their own: one call of a function of the pipeline, on an   *)
(* argument drawn from a bounded set                                       *)
(***************************************************************************)
MaxTokens == 7

Tokens == {<<"y", "o">>, <<"Y", "o">>, <<"o", "y">>}

Fragments == UNION {[1..n -> Tokens] : n \in 0..MaxTokens}

\* the text of a fragment: its tokens separated by one space
RECURSIVE JoinWords(_)
JoinWords(ws) ==
  IF ws = <<>> THEN <<>>
  ELSE IF Len(ws) = 1 THEN Head(ws)
  ELSE Head(ws) \o <<" ">> \o JoinWords(Tail(ws))

CallIsRepetitive ==
  /\ call.fn = "is_repetitive"
  /\ ~call.done
  /\ call' = [call EXCEPT !.done = TRUE, !.res = is_repetitive(call.text)]
  /\ UNCHANGED <<env, running, starting, stopping, lastCmd, nspawn, wk, batchBuf>>

\* accumulated utterances the worker can hold when a chunk is transcribed
AccStates ==
  {<<>>, Hey, JoinWords(<<Hey, You>>), JoinWords(<<<<"y", "o">>, <<"y", "o">>>>),
   JoinWords(<<<<"o", "y">>, <<"Y", "o">>>>)}

\* the engine reports the fragment as one segment, or one segment per token
SegmentsOf(ws, split) == IF split THEN ws ELSE <<JoinWords(ws)>>

\* one engine result accumulated (lines 465-491)
CallAccumulate ==
  /\ call.fn = "accumulate"
  /\ ~call.done
  /\ call' = [call EXCEPT
                !.done = TRUE,
                !.res = Accumulate(call.acc,
                          transcribe_chunk_silent(
                            [ok |-> "ok", segs |-> SegmentsOf(call.words, call.split)]))]
  /\ UNCHANGED <<env, running, starting, stopping, lastCmd, nspawn, wk, batchBuf>>

\* accumulated texts and fragments for one run of the accumulation on a
\* fragment the engine call has returned
Yeye == <<"y", "e_acute", "y", "e_acute">>
HeyYou == JoinWords(<<Hey, You>>)
AccTexts ==
  AccStates \cup {JoinWords(<<Yeye, <<"y", "o">>>>), JoinWords(<<HeyYou, <<"y", "o">>>>),
                  JoinWords(<<You, HeyUpper>>), Yeye}
FragmentTexts == {Hey, HeyUpper, You, <<"y", "o">>, HeyYou, Yeye, YouYouYou, <<>>}

CallAppendFragment ==
  /\ call.fn = "append_fragment"
  /\ ~call.done
  /\ call' = [call EXCEPT !.done = TRUE, !.res = Accumulate(call.acc, call.text)]
  /\ UNCHANGED <<env, running, starting, stopping, lastCmd, nspawn, wk, batchBuf>>

\* Sample values are integers; the rates of a resampling are in units of
\* 16000 Hz, and the values are multiples of 6 so that every interpolated
\* value is an integer.
\* the i-th output sample of the interpolation loop (lines 652-664 /
\* 313-325), or <<>> when the source position is past the input
Interpolated(input, from_rate, to_rate, i) ==
  LET src_idx == (i * from_rate) \div to_rate
      r == (i * from_rate) % to_rate
  IN  IF src_idx + 1 < Len(input)
      THEN <<(input[src_idx + 1] * (to_rate - r) + input[src_idx + 2] * r) \div to_rate>>
      ELSE IF src_idx < Len(input) THEN <<input[src_idx + 1]>>
      ELSE <<>>

RECURSIVE InterpolateFrom(_, _, _, _, _)
InterpolateFrom(input, from_rate, to_rate, i, output_len) ==
  IF i >= output_len THEN <<>>
  ELSE Interpolated(input, from_rate, to_rate, i)
         \o InterpolateFrom(input, from_rate, to_rate, i + 1, output_len)

\* the interpolation loop without the early return for equal rates, and
\* without the branch that copies the last input sample
ResampleDropsTail(input, from_rate, to_rate) ==
  LET output_len == (Len(input) * to_rate) \div from_rate
      interpolated == {i \in 0..(output_len - 1) :
                         (i * from_rate) \div to_rate + 1 < Len(input)}
  IN  SubSeq(InterpolateFrom(input, from_rate, to_rate, 0, output_len),
             1, Cardinality(interpolated))

\* resample_audio (system_audio_transcription.rs, lines 643-667)
resample_audio(input, from_rate, to_rate) ==
  IF from_rate = to_rate THEN input
  ELSE LET output_len == (Len(input) * to_rate) \div from_rate
       IN  InterpolateFrom(input, from_rate, to_rate, 0, output_len)

\* resample_linear (realtime_transcription.rs, lines 304-328)
resample_linear(input, from_rate, to_rate) ==
  IF from_rate = to_rate THEN input
  ELSE LET output_len == (Len(input) * to_rate) \div from_rate
       IN  InterpolateFrom(input, from_rate, to_rate, 0, output_len)

MaxSamples == 3
SampleValues == {-6, 0, 12}
ResampleRates == {1, 2, 3}
Buffers == UNION {[1..n -> SampleValues] : n \in 0..MaxSamples}

CallResample ==
  /\ call.fn \in {"resample_audio", "resample_linear"}
  /\ ~call.done
  /\ call' = [call EXCEPT
                !.done = TRUE,
                !.res = IF call.fn = "resample_audio"
                        THEN resample_audio(call.input, call.from, call.to)
                        ELSE resample_linear(call.input, call.from, call.to)]
  /\ UNCHANGED <<env, running, starting, stopping, lastCmd, nspawn, wk, batchBuf>>

\* The amplitudes of a buffer to normalize are in thousandths, and a scaled
\* amplitude is rounded toward zero to a thousandth.
TargetPeak == 800
ClampLimit == 1000
PeakFloorMillionths == 1

Abs(x) == IF x < 0 THEN 0 - x ELSE x

RECURSIVE PeakOf(_)
PeakOf(input) ==
  IF input = <<>> THEN 0 ELSE Max(Abs(Head(input)), PeakOf(Tail(input)))

Clamp(x) == Max(0 - ClampLimit, Min(ClampLimit, x))

\* x * (peak / max_val)
Scaled(x, peak, max_val) ==
  IF x < 0 THEN 0 - ((Abs(x) * peak) \div max_val) ELSE (x * peak) \div max_val

\* a normalization to full scale: the target peak is 1.0
NormalizeToFullScale(input) ==
  IF input = <<>> THEN <<>>
  ELSE LET max_val == PeakOf(input)
       IN  IF max_val * 1000 < PeakFloorMillionths THEN input
           ELSE [i \in 1..Len(input) |-> Clamp(Scaled(input[i], ClampLimit, max_val))]

\* normalize_audio (system_audio_transcription.rs, lines 616-640)
normalize_audio(input) ==
  IF input = <<>> THEN <<>>
  ELSE LET max_val == PeakOf(input)
       IN  IF max_val * 1000 < PeakFloorMillionths THEN input
           ELSE [i \in 1..Len(input) |-> Clamp(Scaled(input[i], TargetPeak, max_val))]

\* normalize_audio (realtime_transcription.rs, lines 281-301)
realtime_normalize_audio(input) ==
  IF input = <<>> THEN <<>>
  ELSE LET max_val == PeakOf(input)
       IN  IF max_val * 1000 < PeakFloorMillionths THEN input
           ELSE [i \in 1..Len(input) |-> Clamp(Scaled(input[i], TargetPeak, max_val))]

Amplitudes == {-1000, -800, -3, 0, 1, 400, 800}
AmplitudeBuffers == UNION {[1..n -> Amplitudes] : n \in 0..MaxSamples}

NormalizeOf(fn, input) ==
  IF fn = "normalize_audio" THEN normalize_audio(input)
  ELSE realtime_normalize_audio(input)

CallNormalize ==
  /\ call.fn \in {"normalize_audio", "realtime_normalize_audio"}
  /\ ~call.done
  /\ call' = [call EXCEPT !.done = TRUE, !.res = NormalizeOf(call.fn, call.input)]
  /\ UNCHANGED <<env, running, starting, stopping, lastCmd, nspawn, wk, batchBuf>>

\* A time in seconds is kept with two decimals: whole seconds and hundredths.
\* the offset divided by 1000, as if it counted milliseconds
SecondsOfMillis(t) == [int |-> t \div 1000, frac |-> (t % 1000) \div 10]

\* `t as f64 / 100.0` (lines 941-942)
Seconds(t) == [int |-> t \div 100, frac |-> t % 100]

\* the segments pushed by transcribe_recorded_audio (lines 924-946) for the
\* engine's segments [text, t0, t1]
RECURSIVE RecordedSegments(_)
RecordedSegments(segs) ==
  IF segs = <<>> THEN <<>>
  ELSE LET text == Trim(Head(segs).text)
       IN  (IF SegmentKept(text)
            THEN <<[text |-> text, start |-> Seconds(Head(segs).t0),
                    end |-> Seconds(Head(segs).t1)]>>
            ELSE <<>>) \o RecordedSegments(Tail(segs))

MaxSegments == 2
Offsets == {<<0, 150>>, <<150, 300>>, <<0, 300>>, <<300, 300>>}
SegmentTexts == {Hey, <<" ", "h", "e", "y", " ">>, <<"y">>, <<"[", "_", "T", "T", "_">>}
EngineSegments == {[text |-> t, t0 |-> o[1], t1 |-> o[2]] : t \in SegmentTexts, o \in Offsets}

CallTranscribeRecorded ==
  /\ call.fn = "transcribe_recorded_audio"
  /\ ~call.done
  /\ call' = [call EXCEPT !.done = TRUE, !.res = RecordedSegments(call.segs)]
  /\ UNCHANGED <<env, running, starting, stopping, lastCmd, nspawn, wk, batchBuf>>

InitPure ==
  /\ InitThreads
  /\ env \in Env({{}}, 0, {TRUE}, {1}, {}, {}, 0)
  /\ \/ call \in {[fn |-> "is_repetitive", words |-> ws, text |-> JoinWords(ws),
                   done |-> FALSE, res |-> FALSE] : ws \in Fragments}
     \/ call \in {[fn |-> "accumulate", acc |-> a, words |-> ws, split |-> sp,
                   done |-> FALSE, res |-> <<>>] :
                    a \in AccStates, ws \in Fragments, sp \in BOOLEAN}
     \/ call \in {[fn |-> "transcribe_recorded_audio", segs |-> sg,
                   done |-> FALSE, res |-> <<>>] :
                    sg \in UNION {[1..n -> EngineSegments] : n \in 0..MaxSegments}}
     \/ call \in {[fn |-> f, input |-> b, from |-> r1, to |-> r2,
                   done |-> FALSE, res |-> <<>>] :
                    f \in {"resample_audio", "resample_linear"}, b \in Buffers,
                    r1 \in ResampleRates, r2 \in ResampleRates}
     \/ call \in {[fn |-> "append_fragment", acc |-> a, text |-> f,
                   done |-> FALSE, res |-> <<>>] : a \in AccTexts, f \in FragmentTexts}
     \/ call \in {[fn |-> f, input |-> b, done |-> FALSE, res |-> <<>>] :
                    f \in {"normalize_audio", "realtime_normalize_audio"},
                    b \in AmplitudeBuffers}

NextPure ==
  \/ CallIsRepetitive
  \/ CallAccumulate
  \/ CallTranscribeRecorded
  \/ CallResample
  \/ CallNormalize
  \/ CallAppendFragment

SpecPure == InitPure /\ [][NextPure]_vars

(***************************************************************************)
(* Claims                                                                  *)
(***************************************************************************)
TextEvents(w) == SelectSeq(wk[w].events, LAMBDA e : e.type = "text")

\* C1: for each kind, at most one thread spawned by start has not yet
\* returned, in every interleaving of start, stop and thread steps.
C1_AtMostOneWorker ==
  \A k \in Kinds : Cardinality(AliveOf(k)) <= 1

\* C2: after a start command that failed fatally the flag of its kind is
\* false, so that a following start is not rejected as already running.
C2_FailedStartLeavesIdle ==
  \A k \in Kinds :
    (lastCmd[k].cmd = "start" /\ lastCmd[k].res \notin {"ok", "already"}) => ~running[k]

\* C3: a realtime worker that was alive when stop was called on its Running
\* session eventually returns, whatever commands follow.
C3_StopLiveness ==
  \A w \in WorkerIds :
    (Kind(w) \in Realtime /\ wk[w].stopReq) ~> ~Alive(w)

\* C4: the cursor of the system-audio buffer stays within the buffer after
\* every critical section of the capture thread and of the worker.
C4_CursorInvariant ==
  \A w \in WorkerIds :
    Kind(w) = "sys" => (0 <= wk[w].cursor /\ wk[w].cursor <= wk[w].len)

\* the capture thread has cut a full buffer whose cursor is at its end
C4_Witness ==
  \E w \in WorkerIds :
    /\ Kind(w) = "sys"
    /\ wk[w].len = CaptureCap
    /\ wk[w].cursor = CaptureCap
    /\ wk[w].boundary < wk[w].cursor

\* C5: every trim of the buffer by k samples, by either thread, lowers the
\* cursor by k (not below 0), so the cursor stays on the boundary between
\* the samples already in a chunk and the new ones.
C5_CursorFollowsTrim ==
  \A w \in WorkerIds :
    Kind(w) = "sys" => wk[w].cursor = wk[w].boundary

\* C6: no sample leaves the buffer, and none is passed over by the cursor,
\* before it was part of a chunk.
C6_NoSampleLost ==
  \A w \in WorkerIds : Kind(w) \in Realtime => ~wk[w].lost

\* C7: in both realtime kinds no sample is part of two chunks.
C7_NoOverlap ==
  \A w \in WorkerIds : Kind(w) \in Realtime => ~wk[w].overlap

\* C8: between two starts of a new speech turn at most one text event is
\* emitted, by the silence flush or by the stop flush.
C8_OneEmissionPerTurn ==
  \A w \in WorkerIds :
    \A i, j \in DOMAIN TextEvents(w) :
      i < j => TextEvents(w)[i].turn # TextEvents(w)[j].turn

\* a finished session that emitted in two turns
C8_Witness ==
  \E w \in WorkerIds :
    /\ wk[w].pc = "done"
    /\ Len(TextEvents(w)) >= 2
    /\ wk[w].turn >= 1

\* C9 as claimed: no two consecutive text events of a session carry the same
\* normalized text, also across speech turns.
C9_NoConsecutiveEqual ==
  \A w \in WorkerIds :
    \A i \in 1..(Len(TextEvents(w)) - 1) :
      Normalized(TextEvents(w)[i].text) # Normalized(TextEvents(w)[i + 1].text)

\* C9 as amended: two consecutive text events with the same normalized text
\* are separated by the start of a new speech turn.
C9_NoConsecutiveEqualInTurn ==
  \A w \in WorkerIds :
    \A i \in 1..(Len(TextEvents(w)) - 1) :
      Normalized(TextEvents(w)[i].text) = Normalized(TextEvents(w)[i + 1].text)
        => TextEvents(w)[i].turn # TextEvents(w)[i + 1].turn

\* the same text emitted in two consecutive turns
C9_Witness ==
  \E w \in WorkerIds :
    \E i \in 1..(Len(TextEvents(w)) - 1) :
      /\ Normalized(TextEvents(w)[i].text) = Normalized(TextEvents(w)[i + 1].text)
      /\ TextEvents(w)[i].turn # TextEvents(w)[i + 1].turn

\* C10: a stop command issued on an Idle session returns success and runs no
\* transcription, for every kind.
C10_StopIdempotent ==
  \A k \in Kinds :
    (lastCmd[k].cmd = "stop" /\ lastCmd[k].wasIdle)
      => (lastCmd[k].res = "ok" /\ ~lastCmd[k].transcribed)

\* a start command of kind k begins: its test of the flag
StartCommand(k) == IF k = "batch" THEN BatchStart ELSE StartBegin(k)

\* C11: a start command issued while the session of its kind is not Idle
\* fails with the already-running error, spawns no worker and leaves the
\* flag, the buffer and the workers of that kind unchanged.
C11_StartRejectedUnlessIdle ==
  [][\A k \in Kinds :
       (~Idle(k) /\ StartCommand(k))
         => /\ lastCmd'[k].cmd = "start" /\ lastCmd'[k].res = "already"
            /\ running' = running /\ nspawn' = nspawn
            /\ wk' = wk /\ batchBuf' = batchBuf]_vars

\* C12: when a realtime start command has returned success, the model is
\* loaded and the audio source is open: the worker it spawned is past its
\* set-up and has not failed in it, so that a model-load failure or a missing
\* device is the result of start itself.
C12_StartFailuresSynchronous ==
  \A k \in Realtime :
    (lastCmd[k].cmd = "start" /\ lastCmd[k].res = "ok")
      => wk[<<k, nspawn[k]>>].pc \notin {"load", "open", "recv", "failed"}

\* C13: a failure of one engine call (the recognition state cannot be
\* created, or the inference fails) only skips that chunk: the realtime
\* worker of either kind is back in its loop when the call returns.
C13_ChunkFailureSkipsChunk ==
  [][\A w \in WorkerIds :
       (Kind(w) \in Realtime /\ wk[w].pc = "engine")
         => wk'[w].pc \in {"engine", "loop"}]_vars

\* the step of worker w appends a text event
EmitsText(w) ==
  /\ Len(wk'[w].events) > Len(wk[w].events)
  /\ wk'[w].events[Len(wk'[w].events)].type = "text"

\* C14: while the session runs, the utterance is emitted only at a poll at
\* which the silence timer has run for the hold duration; the timer is
\* started, without an emission, at the first poll without speech that finds
\* text not yet emitted, and a speech chunk cancels it.
C14_SilenceFlushTiming ==
  [][\A w \in WorkerIds :
       /\ (EmitsText(w) /\ wk[w].pc # "flush")
            => (wk[w].pc = "poll" /\ wk[w].u.silence >= SilenceDelay)
       /\ (wk[w].pc = "poll" /\ wk'[w].pc = "engine")
            => wk'[w].u.silence = NoTimer
       /\ (wk[w].pc = "poll" /\ wk'[w].pc = "loop" /\ wk[w].u.silence = NoTimer
             /\ wk[w].u.acc # <<>> /\ ~wk[w].u.displayed)
            => (wk'[w].u.silence = 0 /\ ~EmitsText(w))]_vars

\* a running session has emitted an utterance after the hold, and a later
\* utterance waits with its timer running
C14_Witness ==
  \E w \in WorkerIds :
    /\ running["sys"] /\ wk[w].pc = "loop"
    /\ Len(TextEvents(w)) >= 1
    /\ wk[w].u.acc # <<>> /\ wk[w].u.silence \in 0..(SilenceDelay - 1)

\* three consecutive tokens equal up to case
RunOfThree(ws) ==
  \E i \in 1..(Len(ws) - 2) :
    /\ ToLowercase(ws[i]) = ToLowercase(ws[i + 1])
    /\ ToLowercase(ws[i + 1]) = ToLowercase(ws[i + 2])

\* three or more tokens, all equal up to case
AllSame(ws) ==
  Len(ws) >= 3 /\ \A i \in 1..Len(ws) : ToLowercase(ws[i]) = ToLowercase(ws[1])

\* C15: is_repetitive is true exactly of the fragments that hold a run of at
\* least three consecutive tokens equal up to case, or three or more tokens
\* that are all equal up to case.
C15_IsRepetitiveReference ==
  (call.fn = "is_repetitive" /\ call.done)
    => (call.res <=> (RunOfThree(call.words) \/ AllSame(call.words)))

\* C16: a fragment of three or more tokens that are all equal up to case is
\* never appended: whatever the accumulated utterance, it is the same after
\* the fragment was processed.
C16_AllSameNeverAppended ==
  (call.fn = "accumulate" /\ call.done /\ AllSame(call.words))
    => call.res = call.acc

\* a fragment of four equal tokens was processed on a non-empty utterance
C16_Witness ==
  /\ call.fn = "accumulate" /\ call.done
  /\ AllSame(call.words) /\ Len(call.words) = 4
  /\ call.acc # <<>> /\ call.res = call.acc

StoppedEmitted(w) == \E i \in DOMAIN wk[w].events : wk[w].events[i].type = "stopped"

\* the utterance pending at stop is the last text event
FlushDone(w) ==
  StopFlushEmits(wk[w].u)
    => /\ TextEvents(w) # <<>>
       /\ TextEvents(w)[Len(TextEvents(w))].text = Trim(wk[w].u.acc)

\* C17 as claimed: the worker emits the stopped event before it joins the
\* capture thread, so a worker past the join has emitted it.
C17_StoppedBeforeJoin ==
  \A w \in WorkerIds :
    (Kind(w) = "sys" /\ wk[w].pc \in {"notify", "done"}) => StoppedEmitted(w)

\* C17 as amended: the pending utterance is flushed before the join, the
\* capture thread has ended and is joined before the stopped event, and the
\* stopped event is the last event of the session.
C17_FlushJoinStopped ==
  \A w \in WorkerIds :
    Kind(w) = "sys" =>
      /\ wk[w].pc \in {"join", "notify", "done"} => FlushDone(w)
      /\ \A i \in DOMAIN wk[w].events :
           wk[w].events[i].type = "stopped"
             => /\ i = Len(wk[w].events)
                /\ wk[w].pc = "done"
                /\ wk[w].cpc = "done"

\* a stopped session whose last two events are the flushed utterance and the
\* stopped event
C17_Witness ==
  \E w \in WorkerIds :
    /\ Kind(w) = "sys" /\ wk[w].pc = "done"
    /\ StopFlushEmits(wk[w].u)
    /\ Len(wk[w].events) >= 2
    /\ wk[w].events[Len(wk[w].events)].type = "stopped"
    /\ wk[w].events[Len(wk[w].events) - 1] = Ev("text", Trim(wk[w].u.acc), wk[w].turn)

StoppedEvents(w) == SelectSeq(wk[w].events, LAMBDA e : e.type = "stopped")

\* C18: every realtime session that has ended, of either kind, has emitted
\* exactly one stopped event.
C18_OneStoppedPerSession ==
  \A w \in WorkerIds :
    (Kind(w) \in Realtime /\ wk[w].pc \in {"done", "failed"})
      => Len(StoppedEvents(w)) = 1

\* C19: in both realtime kinds a text event is emitted only by the flush of
\* the accumulated utterance, at a poll after the silence hold or at stop,
\* never by the step in which an engine call returns.
C19_EmittedOnlyByFlush ==
  [][\A w \in WorkerIds :
       (Kind(w) \in Realtime /\ EmitsText(w)) => wk[w].pc \in {"poll", "flush"}]_vars

\* the threads that hold the lock of the flag of kind k in this state: a
\* realtime start command keeps its guard from the test of the flag to its
\* return; every other thread locks the flag within one step
FlagLockHolders(k) == IF starting[k] THEN {<<"start", k>>} ELSE {}

\* the threads that are inside model resolution or the spawn of the worker
\* (a start command past its test of the flag), inside the load of the model
\* or inside an engine call
ThreadsInIO(k) ==
  (IF starting[k] THEN {<<"start", k>>} ELSE {})
    \cup {<<"worker", w>> : w \in {v \in AliveOf(k) : wk[v].pc \in {"load", "engine"}}}

\* C20: no thread that is inside model resolution, a thread spawn, the load
\* of the model or an engine call holds the lock of the running flag.
C20_NoLockAcrossIO ==
  \A k \in Realtime : FlagLockHolders(k) \cap ThreadsInIO(k) = {}

\* C21: a step of the capture thread or of the input callback only appends:
\* it removes no buffered sample (the samples already in a chunk stay where
\* they are and no unconsumed sample is dropped), leaves the cursor alone and
\* does none of the worker's work.
C21_CaptureOnlyAppends ==
  [][\A w \in WorkerIds :
       (SysCapture(w) \/ MicCallback(w))
         => /\ wk'[w].len >= wk[w].len
            /\ wk'[w].boundary = wk[w].boundary
            /\ wk'[w].lost = wk[w].lost
            /\ wk'[w].cursor = wk[w].cursor
            /\ wk'[w].pc = wk[w].pc
            /\ wk'[w].u = wk[w].u
            /\ wk'[w].events = wk[w].events]_vars

\* C22: when the batch stop command takes its snapshot of the recorded
\* buffer and goes on to the engine, no recorder thread is left that can
\* still append: every recorder has seen the cleared flag and left its loop.
C22_NoRecorderAtSnapshot ==
  [][BatchStopFinish => AliveOf("batch") = {}]_vars

\* C23: the audio a batch stop transcribes holds only blocks appended by the
\* recorder of the most recent successful start, none appended by the
\* recorder thread of an earlier start.
C23_OnlyBlocksOfThisRecording ==
  [][(BatchStopFinish /\ lastCmd'["batch"].transcribed)
       => \A i \in DOMAIN batchBuf : batchBuf[i] = nspawn["batch"]]_vars

\* the entry e reports the engine segment g: its text, and its offsets
\* divided by 100
Reports(e, g) ==
  /\ e.text = Trim(g.text)
  /\ e.start.frac \in 0..99 /\ e.start.int * 100 + e.start.frac = g.t0
  /\ e.end.frac \in 0..99 /\ e.end.int * 100 + e.end.frac = g.t1

ErrorEmitted(w) == \E i \in DOMAIN wk[w].events : wk[w].events[i].type = "error"

\* C25: a realtime session of either kind whose start failed fatally in the
\* worker (the model cannot be loaded, the device cannot be opened) has
\* emitted an error event.
C25_StartFailureEmitsError ==
  \A w \in WorkerIds :
    (Kind(w) \in Realtime /\ wk[w].pc = "failed") => ErrorEmitted(w)

\* a step of a command of kind k
CommandOf(k) ==
  IF k = "batch" THEN BatchStart \/ BatchStopBegin \/ BatchStopFinish
  ELSE StartBegin(k) \/ StartFinish(k) \/ Stop(k)

\* C26: a start or stop command of one kind leaves the flag, the threads,
\* the buffer and the command results of the other two kinds unchanged.
C26_KindsIndependent ==
  [][\A k \in Kinds :
       CommandOf(k)
         => /\ \A j \in Kinds \ {k} :
                 /\ running'[j] = running[j]
                 /\ starting'[j] = starting[j]
                 /\ nspawn'[j] = nspawn[j]
                 /\ lastCmd'[j] = lastCmd[j]
                 /\ \A w \in WorkerIds : Kind(w) = j => wk'[w] = wk[w]
            /\ k # "batch" => (batchBuf' = batchBuf /\ stopping' = stopping)]_vars

\* sessions of all three kinds are Running at the same time, each with its
\* thread in its loop
C26_Witness ==
  /\ \A k \in Kinds : running[k] /\ lastCmd[k].cmd = "start" /\ lastCmd[k].res = "ok"
  /\ wk[<<"mic", 1>>].pc = "sleep"
  /\ wk[<<"sys", 1>>].pc = "sleep"
  /\ wk[<<"batch", 1>>].pc = "wait"

\* C27: resample_audio and resample_linear return their input, the same
\* samples in the same order, when the two rates are equal.
C27_ResampleIdentity ==
  (call.fn \in {"resample_audio", "resample_linear"} /\ call.done /\ call.from = call.to)
    => call.res = call.input

\* a buffer of different samples was resampled between equal rates
C27_Witness ==
  /\ call.fn = "resample_audio" /\ call.done /\ call.from = call.to
  /\ call.input = <<12, -6, 0>>
  /\ call.res = <<12, -6, 0>>

\* C28: normalize_audio returns a buffer whose peak is 0.8 unchanged, so
\* normalizing a normalized buffer changes nothing; a buffer whose peak is
\* below 1e-6 is returned unchanged.
C28_NormalizeIdempotent ==
  (call.fn \in {"normalize_audio", "realtime_normalize_audio"} /\ call.done)
    => /\ PeakOf(call.input) = TargetPeak => call.res = call.input
       /\ NormalizeOf(call.fn, call.res) = call.res
       /\ PeakOf(call.input) * 1000 < PeakFloorMillionths => call.res = call.input

\* a buffer that normalization changes was normalized, and the result has
\* the peak 0.8
C28_Witness ==
  /\ call.fn = "normalize_audio" /\ call.done
  /\ call.input = <<400, -3, 1>>
  /\ call.res = <<800, -6, 2>>
  /\ PeakOf(call.res) = TargetPeak

\* the worker w ends its poll in this step
Polls(w) == Kind(w) = "sys" /\ wk[w].pc = "poll" /\ wk'[w].pc # "poll"

\* C29: a poll of the system-audio worker that finds fewer new samples than
\* the minimum chunk size takes no chunk and leaves buffer and cursor as they
\* are; any other poll takes the samples from the cursor to the end of the
\* buffer, at least the minimum size, and leaves the cursor at the end of
\* the buffer.
C29_PollTakesNewSamples ==
  [][\A w \in WorkerIds :
       Polls(w)
         => IF wk[w].len - wk[w].cursor < min_samples(wk[w])
            THEN /\ ~wk'[w].chunk.taken
                 /\ wk'[w].len = wk[w].len
                 /\ wk'[w].cursor = wk[w].cursor
            ELSE /\ wk'[w].chunk.taken
                 /\ wk'[w].chunk.from = wk[w].cursor
                 /\ wk'[w].chunk.to = wk[w].len
                 /\ wk'[w].chunk.to - wk'[w].chunk.from >= min_samples(wk[w])
                 /\ wk'[w].cursor = wk'[w].len]_vars

\* a chunk that starts inside the buffer was taken from a buffer longer than
\* the part that is kept, and the cursor is at the end of what was kept
C29_Witness ==
  \E w \in WorkerIds :
    /\ Kind(w) = "sys"
    /\ wk[w].pc \in {"loop", "engine"}
    /\ wk[w].chunk.taken
    /\ wk[w].chunk.from > 0
    /\ wk[w].chunk.to > keep_samples(wk[w])
    /\ wk[w].cursor = keep_samples(wk[w])
    /\ wk[w].len = keep_samples(wk[w])

SilentTake(w) ==
  Polls(w) /\ wk'[w].chunk.taken /\ wk'[w].chunk.amp < SilenceThreshold

SpeechTake(w) ==
  Polls(w) /\ wk'[w].chunk.taken /\ ~(wk'[w].chunk.amp < SilenceThreshold)

\* the worker w drops the chunk of its iteration in this step
DropsChunk(w) == Kind(w) = "sys" /\ wk[w].chunk.taken /\ ~wk'[w].chunk.taken

PassedOnlyOnWorker(w) ==
  wk'[w].chunk.passed # wk[w].chunk.passed
    => \/ wk[w].pc = "engine" /\ wk'[w].pc = "loop"
             /\ wk'[w].chunk.passed = wk[w].chunk.passed + 1
       \/ DropsChunk(w)

GateOfChunks(w) ==
  /\ SpeechTake(w) => wk'[w].pc = "engine" /\ wk'[w].chunk.passed = 0
  /\ PassedOnlyOnWorker(w)
  /\ DropsChunk(w)
       => wk[w].chunk.passed = IF wk[w].chunk.amp < SilenceThreshold THEN 0 ELSE 1

\* C30 as stated: a chunk whose peak is below the threshold is never passed
\* to the engine and never changes the accumulated text; a chunk whose peak
\* is at least the threshold is passed to the engine exactly once, on the
\* worker.
C30_SilentChunkKeepsText ==
  [][\A w \in WorkerIds :
       /\ SilentTake(w) => wk'[w].pc # "engine" /\ wk'[w].u.acc = wk[w].u.acc
       /\ GateOfChunks(w)]_vars

\* C30: a chunk whose peak is below the threshold is never passed to the
\* engine and never adds to the accumulated text, which the silence flush of
\* that poll may clear; a chunk whose peak is at least the threshold is
\* passed to the engine exactly once, on the worker.
C30_SilentChunkNeverAppends ==
  [][\A w \in WorkerIds :
       /\ SilentTake(w) => /\ wk'[w].pc # "engine"
                           /\ wk'[w].u.acc \in {wk[w].u.acc, <<>>}
       /\ GateOfChunks(w)]_vars

\* the poll of a silent chunk has displayed the utterance and cleared the
\* accumulated text
C30_Witness ==
  \E w \in WorkerIds :
    /\ Kind(w) = "sys"
    /\ wk[w].pc = "loop"
    /\ wk[w].chunk.taken
    /\ wk[w].chunk.amp < SilenceThreshold
    /\ wk[w].chunk.passed = 0
    /\ wk[w].u.acc = <<>>
    /\ wk[w].u.displayed
    /\ wk[w].u.last # <<>>
    /\ wk[w].events # <<>>

\* C31: the poll of a speech chunk resets the silence timer; after a
\* displayed utterance it clears the accumulated text and the last displayed
\* text and resets the displayed mark before the chunk is transcribed;
\* otherwise it keeps both texts, and the fragment of the chunk is added to
\* the utterance that is there.
C31_SpeechStartsOrContinuesTurn ==
  [][\A w \in WorkerIds :
       /\ SpeechTake(w)
            => /\ wk'[w].u.silence = NoTimer
               /\ ~wk'[w].u.displayed
               /\ IF wk[w].u.displayed
                  THEN wk'[w].u.acc = <<>> /\ wk'[w].u.last = <<>>
                  ELSE wk'[w].u.acc = wk[w].u.acc /\ wk'[w].u.last = wk[w].u.last
       /\ (Kind(w) = "sys" /\ wk[w].pc = "engine" /\ wk'[w].pc # "engine")
            => /\ StartsWith(wk'[w].u.acc, wk[w].u.acc)
               /\ wk'[w].u.last = wk[w].u.last
               /\ wk'[w].u.silence = NoTimer
               /\ ~wk'[w].u.displayed]_vars

\* the speech chunk after an emitted utterance is at the engine: the turn is
\* new and nothing is left of the utterance before it
C31_Witness ==
  \E w \in WorkerIds :
    /\ Kind(w) = "sys"
    /\ wk[w].pc = "engine"
    /\ wk[w].turn >= 1
    /\ Len(TextEvents(w)) >= 1
    /\ wk[w].u = FreshUtterance

\* the accumulated text a ends with the fragment f, or contains it while f
\* is longer than 5 characters, both without regard to case
DuplicateByCharacters(a, f) ==
  /\ a # <<>>
  /\ \/ EndsWith(ToLowercase(a), ToLowercase(f))
     \/ Contains(ToLowercase(a), ToLowercase(f)) /\ Len(f) > DupMinLen

\* C32: a fragment that is not empty and not repetitive leaves the
\* accumulated text unchanged when the text ends with it, or contains it and
\* the fragment is longer than 5 characters; otherwise the new text is the
\* fragment, after the old text and one space when the old text is not empty.
C32_AccumulateRule ==
  (call.fn = "append_fragment" /\ call.done
     /\ call.text # <<>> /\ ~is_repetitive(call.text))
    => call.res = IF DuplicateByCharacters(call.acc, call.text) THEN call.acc
                  ELSE IF call.acc = <<>> THEN call.text
                  ELSE call.acc \o <<" ">> \o call.text

\* the text of the last text event of worker w
LastText(w) == TextEvents(w)[Len(TextEvents(w))].text

\* the step of worker w emits the accumulated text it had
EmitsAccumulated(w) ==
  /\ EmitsText(w)
  /\ Len(wk'[w].events) = Len(wk[w].events) + 1
  /\ wk'[w].events[Len(wk'[w].events)].text = Trim(wk[w].u.acc)

\* the worker w is past its stop flush
Flushed(w) == Kind(w) = "sys" /\ wk[w].pc \in {"join", "notify", "done"}

\* C33: no accumulated text is lost.  A step that removes text from the
\* accumulated utterance (the silence flush, the start of a new turn) emits
\* that text in the same step; the stop flush emits the text that is
\* accumulated and not yet emitted; text that was emitted is not emitted
\* again, because the utterance is then empty or the worker is past its
\* last emission.
C33_NoAcceptedTextLost ==
  /\ [][\A w \in WorkerIds :
          Kind(w) = "sys"
            => /\ ~StartsWith(wk'[w].u.acc, wk[w].u.acc) => EmitsAccumulated(w)
               /\ (wk[w].pc = "flush" /\ wk'[w].pc # "flush" /\ wk[w].u.acc # <<>>)
                    => EmitsAccumulated(w)
               /\ EmitsText(w)
                    => /\ EmitsAccumulated(w)
                       /\ wk[w].u.acc # <<>>
                       /\ wk'[w].u.acc = <<>> \/ wk'[w].pc = "join"]_vars
  /\ [](\A w \in WorkerIds :
          (Flushed(w) /\ wk[w].u.acc # <<>>)
            => (TextEvents(w) # <<>> /\ LastText(w) = Trim(wk[w].u.acc)))

\* a finished session whose first utterance went out at a silence flush and
\* whose second went out at the stop flush
C33_Witness ==
  \E w \in WorkerIds :
    /\ Kind(w) = "sys"
    /\ wk[w].pc = "done"
    /\ Len(TextEvents(w)) = 2
    /\ wk[w].u.acc # <<>>
    /\ ~wk[w].u.displayed
    /\ TextEvents(w)[2].text = Trim(wk[w].u.acc)
    /\ TextEvents(w)[2].turn > TextEvents(w)[1].turn

\* a command of kind k returns in this step
Returns(k) == lastCmd'[k] # lastCmd[k]

C35_CaptureEndsWithWorker ==
  \A w \in WorkerIds :
    (Kind(w) = "sys" /\ wk[w].pc \in {"done", "failed"}) ~> ~CaptureAlive(w)

\* the worker w takes a chunk in this step
TakesChunk(w) == Polls(w) /\ wk'[w].chunk.taken

\* C36: while the session stays Running and the capture thread of the
\* worker keeps appending, the worker takes a chunk again and again, at
\* every rate the device reports.
C36_ChunkingProgress ==
  \A w \in WorkerIds :
    Kind(w) = "sys"
      => ((<>[](running["sys"] /\ Alive(w)) /\ []<><<CaptureAppend(w)>>_vars)
            => []<><<TakesChunk(w)>>_vars)

\* C37: between the critical sections of its two threads the system-audio
\* buffer holds at most 30 * 48000 samples, and after a take of the worker
\* it holds at most 10 seconds of samples at the rate of the device.
C37_BufferBounded ==
  /\ [](\A w \in WorkerIds : Kind(w) = "sys" => wk[w].len <= CaptureCap)
  /\ [][\A w \in WorkerIds :
          TakesChunk(w) => wk'[w].len <= keep_samples(wk[w])]_vars

\* the worker has taken a chunk from a buffer that was full to the cap and
\* has cut the buffer to 10 seconds
C37_Witness ==
  \E w \in WorkerIds :
    /\ Kind(w) = "sys"
    /\ wk[w].chunk.taken
    /\ wk[w].chunk.to = CaptureCap
    /\ wk[w].len = keep_samples(wk[w])
    /\ wk[w].len < CaptureCap

\* the system-audio worker w is at the start of a poll
AtPoll(w) == Kind(w) = "sys" /\ wk[w].pc = "poll"

\* C38: at the start of every poll of the system-audio worker, an utterance
\* that is marked displayed has no accumulated text.
C38_DisplayedMeansEmpty ==
  \A w \in WorkerIds :
    (AtPoll(w) /\ wk[w].u.displayed) => wk[w].u.acc = <<>>

\* a poll starts after the utterance was displayed
C38_Witness ==
  \E w \in WorkerIds :
    /\ AtPoll(w)
    /\ wk[w].u.displayed
    /\ wk[w].u.acc = <<>>
    /\ wk[w].u.last # <<>>
    /\ Len(TextEvents(w)) >= 1

\* C39: at the start of every poll of the system-audio worker, an utterance
\* that is not marked displayed has an empty last displayed text; so every
\* flush that clears accumulated text emits it, at a poll and at the stop.
C39_LastEmptyUnlessDisplayed ==
  /\ [](\A w \in WorkerIds :
          (AtPoll(w) /\ ~wk[w].u.displayed) => wk[w].u.last = <<>>)
  /\ [][\A w \in WorkerIds :
          /\ (AtPoll(w) /\ wk'[w].pc = "loop"
                /\ wk[w].u.acc # <<>> /\ wk'[w].u.acc = <<>>)
               => EmitsText(w)
          /\ (Kind(w) = "sys" /\ wk[w].pc = "flush" /\ wk'[w].pc # "flush"
                /\ wk[w].u.acc # <<>> /\ ~wk[w].u.displayed)
               => EmitsText(w)]_vars

\* a poll starts in a second turn whose text is the text displayed in the
\* first turn
C39_Witness ==
  \E w \in WorkerIds :
    /\ AtPoll(w)
    /\ ~wk[w].u.displayed
    /\ wk[w].u.last = <<>>
    /\ wk[w].turn >= 1
    /\ Len(TextEvents(w)) >= 1
    /\ Normalized(wk[w].u.acc) = Normalized(LastText(w))

\* C40: at the start of every poll of the system-audio worker, a running
\* silence timer comes with accumulated text that is not marked displayed;
\* the timer is off after every poll that emits and after every poll that
\* takes a speech chunk.
C40_TimerOnlyForPendingText ==
  /\ [](\A w \in WorkerIds :
          (AtPoll(w) /\ wk[w].u.silence # NoTimer)
            => (wk[w].u.acc # <<>> /\ ~wk[w].u.displayed))
  /\ [][\A w \in WorkerIds :
          /\ (AtPoll(w) /\ EmitsText(w)) => wk'[w].u.silence = NoTimer
          /\ SpeechTake(w) => wk'[w].u.silence = NoTimer
          /\ (Kind(w) = "sys" /\ wk[w].pc = "engine" /\ wk'[w].pc # "engine")
               => wk'[w].u.silence = NoTimer]_vars

\* a poll starts while the timer of an utterance runs
C40_Witness ==
  \E w \in WorkerIds :
    /\ AtPoll(w)
    /\ wk[w].u.silence \in 1..SilenceDelay
    /\ wk[w].u.acc # <<>>
    /\ ~wk[w].u.displayed

=============================================================================
